---- MODULE Spec2Model ----
(***************************************************************************)
(* Network Service Client (cmd-nsc): the request / monitor / reselect loop *)
(* of main() and constructRequest(), and the deferred teardown.            *)
(*                                                                         *)
(* main() handles the configured network services one after another.  For  *)
(* each one it opens a monitor stream, receives the initial event, starts  *)
(* a background receiver that stores later events in a cache, and then     *)
(* loops: constructRequest, Request, retry on failure.  On success a Close *)
(* is deferred and the next network service is handled.  After the last    *)
(* one main() waits for the termination signal and returns, which runs the *)
(* deferred Close calls.                                                   *)
(*                                                                         *)
(* The second part of the module is the network service descriptor of      *)
(* pkg/config: UnmarshalBinary, IsValid and MergeWithConfigOptions,        *)
(* applied to texts built from a small alphabet of words and delimiters.   *)
(***************************************************************************)
EXTENDS Integers, Sequences, FiniteSets, TLC

\* ------------------------------------------------------------------ bounds
\* Largest number of configured network services explored.
MaxNS == 2
\* Requests per network service are counted up to this value (saturating).
MaxAttempts == 3
\* Longest list of path parts in a descriptor text.
MaxSegs == 2
\* Longest list of key=value pairs in the query of a descriptor text.
MaxQuery == 2
\* Longest list of default labels in the Config.
MaxDefaults == 2

\* ------------------------------------------------------------ configuration
\* c.Name, default "nsc".
Name == "nsc"

\* A variant of ConnId that does not use the index.
ConnIdShared(i) == <<Name, 0>>

\* id := fmt.Sprintf("%s-%d", c.Name, i)
ConnId(i) == <<Name, i>>

\* The id the manager gives its own hop of connection i (seen in events).
MgrId(i) == <<"nsmgr", i>>

\* An id of a connection that belongs to some other client.
OtherId == <<"other", 0>>

VARIABLES
    twins         \* the configured URLs differ in their path segments only

\* u.Mechanism().Type of the i-th configured URL (kernel:// or vfio://).
DescMech(i) == IF twins \/ i % 2 = 0 THEN "KERNEL" ELSE "VFIO"

\* u.NetworkService() of the i-th configured URL.
DescNS(i) == IF twins THEN <<"ns", 0>> ELSE <<"ns", i>>

\* u.Labels() of the i-th configured URL.
DescLabels(i) == IF twins THEN {<<"app", 0>>} ELSE {<<"app", i>>}

\* The path segments of the i-th configured URL: the interface name of a
\* kernel URL, none for a vfio URL.
DescPath(i) == IF DescMech(i) = "KERNEL" THEN <<<<"nsm", i>>>> ELSE <<>>

\* Indices of the configurable network services.
Desc == 0 .. (MaxNS - 1)

\* Keys of the monitored-connections map used by the main specification.
MainKeys == {"k1"}

\* Keys of the monitored-connections map used when constructRequest is
\* explored on its own.
Keys == {"k1", "k2"}

\* networkservice.State values.
States == {"UP", "DOWN", "REFRESH_REQUESTED", "RESELECT_REQUESTED"}

\* Outcomes of kernelheal.KernelLivenessCheck under lCheckCtx; "none" = the
\* check was not called.
ProbeOutcomes == {"alive", "dead", "timeout"}

VARIABLES
    n,            \* len(c.NetworkServices)
    livenessOn,   \* c.LivenessCheckEnabled
    pc,           \* position of main()
    cur,          \* loop variable i
    signalled,    \* signalCtx is done
    streamOpen,   \* the monitor stream of the current network service is open
    cache,        \* monitoredConnections of the current network service
    received,     \* per key, the connection of the last event that carried the key
    request,      \* the request built by constructRequest, while in flight
    probe,        \* outcome of the liveness check made for that request
    reused,       \* <<the monitored connection as found>> if that request reuses one
    inflight,     \* outstanding Request calls per network service
    attempts,     \* Requests issued per network service (saturating)
    okAt,         \* value of attempts when the Request succeeded, 0 = never
    established,  \* network services whose Request has succeeded
    deferred,     \* stack of deferred Close closures (head runs first)
    closeLog,     \* Close calls made so far: <<[d, ok, parent, live]>>
    exit,         \* "running", "returned", "fatal" (os.Exit(1)), "panic"
    sent          \* the connection ids carried by the Requests issued, per network service

\* The descriptor of pkg/config.
VARIABLES
    text,         \* the text given to UnmarshalBinary, as a sequence of tokens
    form,         \* the parts the text was written from
    cfg,          \* the NetworkServiceConfig
    conf,         \* the Config given to MergeWithConfigOptions
    prev,         \* cfg before the last call
    res,          \* result of the last call: "ok", an error, "panic"; "none" before
    op            \* the last call made: "start", "parsed", "kept", "merged", "merged2"

mainVars == <<n, livenessOn, twins, pc, cur, signalled, streamOpen, cache, received,
              request,
              probe, reused, inflight, attempts, okAt, established, deferred,
              closeLog, exit, sent>>

cfgVars == <<text, form, cfg, conf, prev, res, op>>

\* RunClient.
VARIABLES
    rootConf,        \* the Config given to RunClient
    rpc,             \* position of RunClient
    ri,              \* index of the loop RunClient is in
    requestConfigs,  \* the groups built by appendNSConf
    connections,     \* the connections RunClient has collected
    issued,          \* the Requests issued so far, in order
    ret              \* what RunClient returned, once it has

runVars == <<rootConf, rpc, ri, requestConfigs, connections, issued, ret>>

vars == <<mainVars, cfgVars, runVars>>

\* ------------------------------------------------------------- connections
\* A *networkservice.Connection.  path is <<>> for a nil Path, else one
\* record; mech is "nil" for a nil Mechanism; context is "nil" for nil.
Conn(id, ns, labels, mech, nse, context, state, path) ==
    [id |-> id, ns |-> ns, labels |-> labels, mech |-> mech, nse |-> nse,
     context |-> context, state |-> state, path |-> path]

\* A *networkservice.Path with the given index and segment ids.
Path(index, segs) == <<[index |-> index, segs |-> segs]>>

\* The zero request: no Request is being built or in flight.
NoRequest == [conn |-> Conn(OtherId, <<"ns", 0>>, {}, "nil", "", "nil", "UP", <<>>),
              prefs |-> <<>>]

Min(a, b) == IF a < b THEN a ELSE b

\* A variant of FreshConn whose state is DOWN.
FreshConnDown(i) ==
    Conn(ConnId(i), DescNS(i), DescLabels(i), "nil", "", "nil", "DOWN", <<>>)

\* The connection constructRequest starts from: Id, NetworkService, Labels.
FreshConn(i) ==
    Conn(ConnId(i), DescNS(i), DescLabels(i), "nil", "", "nil", "UP", <<>>)

\* -------------------------------------------------------- constructRequest
\* A variant of CheckConn that does not look at the index of the path.
CheckConnAnyIndex(conn, connectionID, mechType) ==
    IF conn.path = <<>> THEN "panic"
    ELSE IF conn.path[1].segs = <<>> THEN "panic"
    ELSE IF conn.path[1].segs[1] # connectionID THEN "skip"
    ELSE IF conn.mech = "nil" THEN "panic"
    ELSE IF conn.mech # mechType THEN "skip"
    ELSE "match"

\* The test made on one monitored connection inside Range:
\*   path.Index == 1 && path.PathSegments[0].Id == connectionID &&
\*   conn.Mechanism.Type == u.Mechanism().Type
\* evaluated left to right.  path.Index on a nil Path, PathSegments[0] of an
\* empty slice and Mechanism.Type on a nil Mechanism are run-time panics.
CheckConn(conn, connectionID, mechType) ==
    IF conn.path = <<>> THEN "panic"
    ELSE IF conn.path[1].index # 1 THEN "skip"
    ELSE IF conn.path[1].segs = <<>> THEN "panic"
    ELSE IF conn.path[1].segs[1] # connectionID THEN "skip"
    ELSE IF conn.mech = "nil" THEN "panic"
    ELSE IF conn.mech # mechType THEN "skip"
    ELSE "match"

\* monitoredConnections.Range(...) visiting the keys in the given order: the
\* key of the first match, "none" when no connection matches, "panic" when
\* the test panics before a match is found.
RECURSIVE RangeMatch(_, _, _, _)
RangeMatch(order, c, connectionID, mechType) ==
    IF order = <<>> THEN "none"
    ELSE LET r == CheckConn(c[Head(order)], connectionID, mechType)
         IN  IF r = "panic" THEN "panic"
             ELSE IF r = "match" THEN Head(order)
             ELSE RangeMatch(Tail(order), c, connectionID, mechType)

\* A variant of Normalize that keeps the id the snapshot came with.
NormalizeKeepId(conn, connectionID) ==
    [conn EXCEPT !.path = <<[conn.path[1] EXCEPT !.index = 0]>>]

\* request.Connection = conn; Path.Index = 0; Id = connectionID
Normalize(conn, connectionID) ==
    [conn EXCEPT !.path = <<[conn.path[1] EXCEPT !.index = 0]>>,
                 !.id = connectionID]

\* kernelheal.KernelLivenessCheck: true only when the probe answers in time.
KernelLivenessCheck(outcome) == outcome = "alive"

\* Whether the liveness check is called: the condition is evaluated left to
\* right, so only for a DOWN connection and only when the check is enabled.
ProbeCalled(conn, enabled) == conn.state = "DOWN" /\ enabled

\* A variant of NeedsReselect that asks the probe whatever the flag says.
NeedsReselectFlagless(conn, enabled, outcome) ==
    conn.state = "DOWN" /\ ~KernelLivenessCheck(outcome)

\* A variant of NeedsReselect that ignores the probe (reselect on every DOWN).
NeedsReselectUnprobed(conn, enabled, outcome) == conn.state = "DOWN"

\* State == DOWN && (!c.LivenessCheckEnabled || !KernelLivenessCheck(...))
NeedsReselect(conn, enabled, outcome) ==
    conn.state = "DOWN" /\ (~enabled \/ ~KernelLivenessCheck(outcome))

\* A variant of Reselect that drops the path as well.
ReselectDropPath(conn) ==
    [conn EXCEPT !.mech = "nil", !.nse = "", !.context = "nil",
                 !.state = "RESELECT_REQUESTED", !.path = <<>>]

\* A variant of Reselect that forgets to clear the endpoint name.
ReselectKeepEndpoint(conn) ==
    [conn EXCEPT !.mech = "nil", !.context = "nil",
                 !.state = "RESELECT_REQUESTED"]

\* Mechanism = nil; NetworkServiceEndpointName = ""; Context = nil;
\* State = RESELECT_REQUESTED
Reselect(conn) ==
    [conn EXCEPT !.mech = "nil", !.nse = "", !.context = "nil",
                 !.state = "RESELECT_REQUESTED"]

\* constructRequest(ctx, c, connectionID, networkService, monitoredConnections)
\* for network service i, the Range order and the probe outcome given.
\* request.Connection aliases the matched map entry, so the writes made
\* through the request change the cached connection too.
ConstructRequest(c, i, order, enabled, outcome) ==
    LET hit   == RangeMatch(order, c, ConnId(i), DescMech(i))
        conn0 == IF hit \in {"none", "panic"} THEN FreshConn(i)
                 ELSE Normalize(c[hit], ConnId(i))
        conn1 == IF NeedsReselect(conn0, enabled, outcome)
                 THEN Reselect(conn0) ELSE conn0
    IN  [panic   |-> hit = "panic",
         reused  |-> IF hit \in {"none", "panic"} THEN <<>> ELSE <<c[hit]>>,
         probe   |-> IF ProbeCalled(conn0, enabled) THEN outcome ELSE "none",
         request |-> [conn |-> conn1,
                      prefs |-> <<[type |-> DescMech(i), path |-> DescPath(i)]>>],
         cache   |-> IF hit \in {"none", "panic"} THEN c
                     ELSE [c EXCEPT ![hit] = conn1]]

\* The orders in which Range may visit the keys of a map (unspecified in Go).
Orders(S) == {o \in UNION {[1 .. Cardinality(S) -> S]} :
                 \A a, b \in 1 .. Cardinality(S) : a # b => o[a] # o[b]}

\* ------------------------------------------------------------ monitor events
\* The empty monitoredConnections map.
EmptyCache == [k \in {} |-> FreshConn(0)]

\* A connection as the manager reports it for network service i: the
\* manager's hop is at index 1 of the path, the client's hop is segment 0.
Reported(i, state) ==
    Conn(MgrId(i), DescNS(i), DescLabels(i), DescMech(i), "nse-1", "ctx", state,
         Path(1, <<ConnId(i), MgrId(i)>>))

\* Connections carried by the events of the main specification: the
\* connection of network service i up or down, a connection of another
\* client, and a connection that carries no path.
MainSnapshots(i) ==
    { Reported(i, "UP"), Reported(i, "DOWN"),
      [Reported(i, "DOWN") EXCEPT !.path = Path(1, <<OtherId, MgrId(i)>>)],
      [Reported(i, "DOWN") EXCEPT !.path = <<>>] }

\* event.Connections of the events the stream may deliver (possibly empty).
Events(i, K, S) == UNION {[D -> S] : D \in SUBSET K}

\* for k, conn := range event.Connections { monitoredConnections.Store(k, conn) }
Store(c, ev) ==
    [k \in (DOMAIN c) \cup (DOMAIN ev) |-> IF k \in DOMAIN ev THEN ev[k] ELSE c[k]]

\* ------------------------------------------------- descriptor, zero values
\* A map[string]string without entries.
NoLabels == [k \in {} |-> ""]

\* The zero NetworkServiceConfig: what envconfig decodes a text into.
ZeroNSC == [mech |-> "", ns |-> "", path |-> <<>>, labels |-> NoLabels]

\* The zero Config, as far as the descriptor reads it: Mechanism and Labels.
ZeroConf == [mech |-> "", labels |-> <<>>]

\* No text is being decoded.
NoForm == [scheme |-> "", host |-> "", segs |-> <<>>, query |-> <<>>]

\* main() does not decode descriptors with pkg/config.
CfgIdle ==
    /\ text = <<>>
    /\ form = NoForm
    /\ cfg = ZeroNSC
    /\ conf = ZeroConf
    /\ prev = ZeroNSC
    /\ res = "none"
    /\ op = "idle"

\* The zero Config and the value of ret before RunClient has returned.
ZeroRootConf ==
    [name |-> "", connectTo |-> "", mech |-> "", labels |-> <<>>,
     services |-> <<>>]

NoReturn == [err |-> "none", conns |-> <<>>]

\* RunClient is not part of the latest main().
RunIdle ==
    /\ rootConf = ZeroRootConf
    /\ rpc = "idle"
    /\ ri = 0
    /\ requestConfigs = <<>>
    /\ connections = <<>>
    /\ issued = <<>>
    /\ ret = NoReturn

\* ------------------------------------------------------------------- main()
Init ==
    /\ CfgIdle
    /\ RunIdle
    /\ twins \in BOOLEAN
    /\ sent = [d \in Desc |-> {}]
    /\ n \in 0 .. MaxNS
    /\ livenessOn \in BOOLEAN
    /\ pc = "subscribe"
    /\ cur = 0
    /\ signalled = FALSE
    /\ streamOpen = FALSE
    /\ cache = EmptyCache
    /\ received = EmptyCache
    /\ request = NoRequest
    /\ probe = "none"
    /\ reused = <<>>
    /\ inflight = [d \in Desc |-> 0]
    /\ attempts = [d \in Desc |-> 0]
    /\ okAt = [d \in Desc |-> 0]
    /\ established = [d \in Desc |-> FALSE]
    /\ deferred = <<>>
    /\ closeLog = <<>>
    /\ exit = "running"

\* signal.NotifyContext: a termination signal cancels signalCtx and with it
\* every monitorCtx derived from it.
Signal ==
    /\ ~signalled
    /\ pc # "exited"
    /\ signalled' = TRUE
    /\ streamOpen' = FALSE
    /\ UNCHANGED <<cfgVars, runVars, twins, received, n, livenessOn, pc, cur, cache, request, probe, reused, inflight,
                   attempts, sent, okAt, established, deferred, closeLog, exit>>

\* monitorClient.MonitorConnections(monitorCtx, ...) for network service cur;
\* an error ends the process in logger.Fatalf, which does not run deferred
\* functions.
Subscribe ==
    /\ pc = "subscribe"
    /\ cur < n
    /\ \E ok \in BOOLEAN :
          IF ok
          THEN /\ pc' = "recv"
               /\ streamOpen' = ~signalled
               /\ exit' = exit
          ELSE /\ pc' = "exited"
               /\ streamOpen' = FALSE
               /\ exit' = "fatal"
    /\ cache' = EmptyCache
    /\ received' = EmptyCache
    /\ UNCHANGED <<cfgVars, runVars, twins, n, livenessOn, cur, signalled, request, probe, reused, inflight,
                   attempts, sent, okAt, established, deferred, closeLog>>

\* The monitor stream ends: monitorCtx times out after c.RequestTimeout, or
\* the server ends it.
StreamBreak ==
    /\ streamOpen
    /\ streamOpen' = FALSE
    /\ UNCHANGED <<cfgVars, runVars, twins, received, n, livenessOn, pc, cur, signalled, cache, request, probe, reused,
                   inflight, attempts, sent, okAt, established, deferred, closeLog, exit>>

\* event, err := stream.Recv(): the initial event is stored; on an error
\* event is nil and event.Connections panics, which unwinds main().
RecvInitial ==
    /\ pc = "recv"
    /\ \/ /\ streamOpen
          /\ \E ev \in Events(cur, MainKeys, MainSnapshots(cur)) :
                /\ cache' = Store(cache, ev)
                /\ received' = Store(received, ev)
          /\ pc' = "construct"
          /\ exit' = exit
          /\ streamOpen' = streamOpen
       \/ /\ pc' = "teardown"
          /\ exit' = "panic"
          /\ streamOpen' = FALSE
          /\ UNCHANGED <<cache, received>>
    /\ UNCHANGED <<cfgVars, runVars, twins, n, livenessOn, cur, signalled, request, probe, reused, inflight,
                   attempts, sent, okAt, established, deferred, closeLog>>

\* The background goroutine: each later event overwrites the cached
\* connection of every key it carries.
MonitorEvent ==
    /\ streamOpen
    /\ pc \in {"construct", "inflight"}
    /\ \E ev \in Events(cur, MainKeys, MainSnapshots(cur)) :
          /\ DOMAIN ev # {}
          /\ cache' = Store(cache, ev)
          /\ received' = Store(received, ev)
    /\ UNCHANGED <<cfgVars, runVars, twins, n, livenessOn, pc, cur, signalled, streamOpen, request, probe,
                   reused, inflight, attempts, sent, okAt, established, deferred,
                   closeLog, exit>>

\* A variant of CanIssue for a loop that needs the monitor stream.
CanIssueWhileOpen == pc = "construct" /\ streamOpen

\* A variant of CanIssue for a loop that does not wait for the answer.
CanIssueOverlapping == pc \in {"construct", "inflight"} /\ inflight[cur] < 2

\* The top of the inner for loop is reached only when no Request of this
\* loop is outstanding: nsmClient.Request is a synchronous call.
CanIssue == pc = "construct"

\* request := constructRequest(...); resp, err := nsmClient.Request(ctx, request)
\* up to the point where the call is outstanding.  Neither uses signalCtx.
IssueRequest ==
    /\ CanIssue
    /\ \E order \in Orders(DOMAIN cache), outcome \in ProbeOutcomes :
          LET r == ConstructRequest(cache, cur, order, livenessOn, outcome)
          IN  IF r.panic
              THEN /\ pc' = "teardown"
                   /\ exit' = "panic"
                   /\ streamOpen' = FALSE
                   /\ UNCHANGED <<cache, request, probe, reused, inflight, attempts, sent>>
              ELSE /\ pc' = "inflight"
                   /\ request' = r.request
                   /\ cache' = r.cache
                   /\ probe' = r.probe
                   /\ reused' = r.reused
                   /\ inflight' = [inflight EXCEPT ![cur] = @ + 1]
                   /\ attempts' = [attempts EXCEPT ![cur] = Min(@ + 1, MaxAttempts)]
                   /\ sent' = [sent EXCEPT ![cur] = @ \cup {r.request.conn.id}]
                   /\ UNCHANGED <<exit, streamOpen>>
    /\ UNCHANGED <<cfgVars, runVars, twins, received, n, livenessOn, cur, signalled, okAt, established, deferred,
                   closeLog>>

\* A variant of OnSuccess that goes round the inner loop again.
OnSuccessContinue == [pc |-> "construct", cur |-> cur]

\* After a successful Request: break, cancelMonitor(), i++.
OnSuccess == [pc |-> "subscribe", cur |-> cur + 1]

\* A variant of OnFailure that gives up and goes on to the next network service.
OnFailureSkip == [pc |-> "subscribe", cur |-> cur + 1]

\* After a failed Request: logger.Errorf and continue, the same i again.
OnFailure == [pc |-> "construct", cur |-> cur]

\* A variant of Defer that queues the closure behind the earlier ones.
DeferFifo(stack, d) == Append(stack, d)

\* defer func() { ... nsmClient.Close(closeCtx, resp) }(): deferred functions
\* run last in, first out.
Defer(stack, d) == <<d>> \o stack

\* nsmClient.Request returns, with a connection or with an error.
RequestReturn ==
    /\ pc = "inflight"
    /\ inflight[cur] > 0
    /\ \E ok \in BOOLEAN :
          IF ok
          THEN /\ established' = [established EXCEPT ![cur] = TRUE]
               /\ okAt' = [okAt EXCEPT ![cur] = attempts[cur]]
               /\ deferred' = Defer(deferred, cur)
               /\ streamOpen' = FALSE
               /\ cache' = EmptyCache
               /\ received' = EmptyCache
               /\ pc' = OnSuccess.pc
               /\ cur' = OnSuccess.cur
          ELSE /\ pc' = OnFailure.pc
               /\ cur' = OnFailure.cur
               /\ UNCHANGED <<established, okAt, deferred, streamOpen, cache,
                               received>>
    /\ inflight' = [inflight EXCEPT ![cur] = @ - 1]
    /\ request' = NoRequest
    /\ probe' = "none"
    /\ reused' = <<>>
    /\ UNCHANGED <<cfgVars, runVars, twins, n, livenessOn, signalled, attempts, sent, closeLog, exit>>

\* A variant of Terminate that ends with a failure when no network service
\* was established.
TerminateChecked ==
    /\ pc = "subscribe"
    /\ cur >= n
    /\ signalled
    /\ pc' = "teardown"
    /\ exit' = IF \E d \in Desc : established[d] THEN "return" ELSE "fatal"
    /\ UNCHANGED <<cfgVars, runVars, twins, received, n, livenessOn, cur, signalled, streamOpen, cache,
                   request, probe, reused, inflight, attempts, sent, okAt,
                   established, deferred, closeLog>>

\* <-signalCtx.Done() after the outer loop, then main() returns.
Terminate ==
    /\ pc = "subscribe"
    /\ cur >= n
    /\ signalled
    /\ pc' = "teardown"
    /\ exit' = "return"
    /\ UNCHANGED <<cfgVars, runVars, twins, received, n, livenessOn, cur, signalled, streamOpen, cache, request, probe,
                   reused, inflight, attempts, sent, okAt, established, deferred, closeLog>>

\* A variant of AfterClose that drops the remaining closures when a Close fails.
AfterCloseAbort(stack, ok) == IF ok THEN Tail(stack) ELSE <<>>

\* _, _ = nsmClient.Close(closeCtx, resp): the result is discarded and the
\* next deferred function runs.
AfterClose(stack, ok) == Tail(stack)

\* A variant of CloseParent: closeCtx derived from signalCtx.
CloseParentSignal == "signalCtx"

\* closeCtx, cancelClose := context.WithTimeout(ctx, c.RequestTimeout): the
\* parent of closeCtx is the root context of main().
CloseParent == "ctx"

\* Whether a context of main() is done: signalCtx once the signal has
\* arrived; the root context once cancel() has run, which is the first
\* function deferred and so the last to run, after every Close closure.
Done(c) == IF c = "signalCtx" THEN signalled ELSE pc = "exited"

\* One deferred closure runs: Close of the connection it captured.
RunDeferred ==
    /\ pc = "teardown"
    /\ deferred # <<>>
    /\ \E ok \in BOOLEAN :
          /\ closeLog' = Append(closeLog, [d |-> Head(deferred), ok |-> ok,
                                           parent |-> CloseParent,
                                           live |-> ~Done(CloseParent)])
          /\ deferred' = AfterClose(deferred, ok)
    /\ UNCHANGED <<cfgVars, runVars, twins, received, n, livenessOn, pc, cur, signalled, streamOpen, cache, request,
                   probe, reused, inflight, attempts, sent, okAt, established, exit>>

\* The remaining deferred functions (cancelDial, cancelSignalCtx, cancel) and
\* the end of the process.
Exit ==
    /\ pc = "teardown"
    /\ deferred = <<>>
    /\ pc' = "exited"
    /\ UNCHANGED <<cfgVars, runVars, twins, received, n, livenessOn, cur, signalled, streamOpen, cache, request, probe,
                   reused, inflight, attempts, sent, okAt, established, deferred,
                   closeLog, exit>>

\* The steps of the main goroutine.
MainStep ==
    \/ Subscribe
    \/ RecvInitial
    \/ IssueRequest
    \/ RequestReturn
    \/ Terminate
    \/ RunDeferred
    \/ Exit

Next ==
    \/ Signal
    \/ Subscribe
    \/ StreamBreak
    \/ RecvInitial
    \/ MonitorEvent
    \/ IssueRequest
    \/ RequestReturn
    \/ Terminate
    \/ RunDeferred
    \/ Exit

Spec == Init /\ [][Next]_vars

\* The main goroutine is always scheduled when it can take a step, and every
\* call it makes returns.
FairSpec == Spec /\ WF_vars(MainStep)

\* -------------------------------------------- constructRequest on its own
\* Connections a monitor event may carry for network service i: with or
\* without a path, with the client's hop, another client's hop or no hop in
\* segment 0, at index 0 or 1, with any mechanism or none, in several states.
AllSnapshots(i) ==
    { [Reported(i, st) EXCEPT !.path = p, !.mech = m] :
        st \in {"UP", "DOWN", "RESELECT_REQUESTED"},
        m \in {"nil", "KERNEL", "VFIO"},
        p \in { <<>>, Path(1, <<>>), Path(1, <<ConnId(i), MgrId(i)>>),
                Path(1, <<OtherId, MgrId(i)>>), Path(0, <<ConnId(i)>>) } }

\* The inner loop of main() entered with any content of the cache.
InitConstruct ==
    /\ CfgIdle
    /\ RunIdle
    /\ twins \in BOOLEAN
    /\ sent = [d \in Desc |-> {}]
    /\ n = MaxNS
    /\ livenessOn \in BOOLEAN
    /\ pc = "construct"
    /\ cur \in Desc
    /\ signalled = FALSE
    /\ streamOpen = FALSE
    /\ cache \in Events(cur, Keys, AllSnapshots(cur))
    /\ received = cache
    /\ request = NoRequest
    /\ probe = "none"
    /\ reused = <<>>
    /\ inflight = [d \in Desc |-> 0]
    /\ attempts = [d \in Desc |-> 0]
    /\ okAt = [d \in Desc |-> 0]
    /\ established = [d \in Desc |-> FALSE]
    /\ deferred = <<>>
    /\ closeLog = <<>>
    /\ exit = "running"

NextConstruct ==
    \/ IssueRequest
    \/ RequestReturn

SpecConstruct == InitConstruct /\ [][NextConstruct]_vars

\* ------------------------------------------------------- descriptor texts
\* A text is a sequence of tokens: words and the delimiters of a URL.
Delims == {"://", "/", "?", "&", "="}

SeqsUpTo(S, k) == UNION {[1 .. m -> S] : m \in 0 .. k}

\* The schemes written in the texts; "" = the text has no scheme.
Schemes == {"", "kernel", "vfio", "Kernel", "memif"}

\* The hosts written after a scheme; "" = none.
Hosts == {"", "ns"}

\* The parts written between the slashes of the path; "" = an empty part.
\* The second name has 16 characters.
SegWords == {"", "nsm0", "nsm-interface-16"}

\* The key=value pairs written in the query.
Pairs == {<<"a", "1">>, <<"a", "2">>, <<"b", "1">>}

\* The parts of the texts explored.
Forms ==
    {f \in [scheme : Schemes, host : Hosts, segs : SeqsUpTo(SegWords, MaxSegs),
            query : SeqsUpTo(Pairs, MaxQuery)] :
        f.scheme = "" => f.host = ""}

\* strings.Join on token sequences.
RECURSIVE Join(_, _)
Join(parts, sep) ==
    IF parts = <<>> THEN <<>>
    ELSE IF Len(parts) = 1 THEN parts[1]
    ELSE parts[1] \o <<sep>> \o Join(Tail(parts), sep)

\* The tokens of a string that is one word or empty.
Word(w) == IF w = "" THEN <<>> ELSE <<w>>

\* The text written from the parts of a form:
\*   scheme://host/seg1/seg2?k=v&k=v     or    seg1/seg2?k=v&k=v
Render(f) ==
    LET head  == IF f.scheme = "" THEN <<>>
                 ELSE <<f.scheme, "://">> \o Word(f.host)
        segs  == [k \in 1 .. Len(f.segs) |-> Word(f.segs[k])]
        path  == IF f.scheme = "" \/ f.segs = <<>> THEN Join(segs, "/")
                 ELSE <<"/">> \o Join(segs, "/")
        pairs == [k \in 1 .. Len(f.query) |->
                     <<f.query[k][1], "=", f.query[k][2]>>]
        query == IF f.query = <<>> THEN <<>> ELSE <<"?">> \o Join(pairs, "&")
    IN  head \o path \o query

\* ------------------------------------------------- strings and url.Parse
\* The string spelled by a sequence of tokens.
RECURSIVE Str(_)
Str(toks) == IF toks = <<>> THEN "" ELSE Head(toks) \o Str(Tail(toks))

\* strings.Split(s, sep): the parts of s between the occurrences of sep.
RECURSIVE Split(_, _)
Split(toks, sep) ==
    IF toks = <<>> THEN << <<>> >>
    ELSE LET r == Split(Tail(toks), sep)
         IN  IF Head(toks) = sep THEN << <<>> >> \o r
             ELSE << <<Head(toks)>> \o Head(r) >> \o Tail(r)

\* The position of the first occurrence of sep, 0 if there is none.
IndexOf(toks, sep) ==
    IF \E k \in 1 .. Len(toks) : toks[k] = sep
    THEN CHOOSE k \in 1 .. Len(toks) :
             toks[k] = sep /\ \A j \in 1 .. (k - 1) : toks[j] # sep
    ELSE 0

\* strings.Cut(s, sep).
Cut(toks, sep) ==
    LET k == IndexOf(toks, sep)
    IN  IF k = 0 THEN [before |-> toks, after |-> <<>>]
        ELSE [before |-> SubSeq(toks, 1, k - 1),
              after  |-> SubSeq(toks, k + 1, Len(toks))]

\* A variant of Lower that leaves the word as written.
LowerNone(w) == w

\* A variant of Lower that leaves a word written all in capitals as it is.
LowerInitial(w) == IF w = "Kernel" THEN "kernel" ELSE w

\* strings.ToLower on the words written as schemes.
Lower(w) ==
    IF w \in {"Kernel", "KERNEL"} THEN "kernel"
    ELSE IF w = "VFIO" THEN "vfio"
    ELSE w

\* strings.Trim(s, " ") on the words written in default labels.
Trim(w) == IF w = " b " THEN "b" ELSE IF w = "9 " THEN "9" ELSE w

\* url.Parse: the scheme in lower case, the authority that follows "//" up
\* to the next "/", the path, and the raw query after the first "?".
URLParse(toks) ==
    LET hasScheme == Len(toks) >= 2 /\ toks[2] = "://" /\ toks[1] \notin Delims
        rest0     == IF hasScheme THEN SubSeq(toks, 3, Len(toks)) ELSE toks
        q         == Cut(rest0, "?")
        rest      == q.before
        slashes   == ~hasScheme /\ Len(rest) >= 2 /\ rest[1] = "/" /\ rest[2] = "/"
                     /\ ~(Len(rest) >= 3 /\ rest[3] = "/")
        rest1     == IF slashes THEN SubSeq(rest, 3, Len(rest)) ELSE rest
        k         == IndexOf(rest1, "/")
        authority == IF k = 0 THEN rest1 ELSE SubSeq(rest1, 1, k - 1)
        path      == IF k = 0 THEN <<>> ELSE SubSeq(rest1, k, Len(rest1))
    IN  [scheme |-> IF hasScheme THEN Lower(toks[1]) ELSE "",
         host   |-> IF hasScheme \/ slashes THEN Str(authority) ELSE "",
         path   |-> IF hasScheme \/ slashes THEN path ELSE rest,
         query  |-> q.after]

\* url.ParseQuery: the key=value pairs of the raw query in the order
\* written; empty parts are skipped, a part is cut at its first "=".
ParseQuery(q) ==
    LET parts == SelectSeq(Split(q, "&"), LAMBDA part : part # <<>>)
    IN  [k \in 1 .. Len(parts) |->
            <<Str(Cut(parts[k], "=").before), Str(Cut(parts[k], "=").after)>>]

\* u.Query()[key]: the values given for key, in the order written.
ValuesOf(pairs, key) ==
    LET mine == SelectSeq(pairs, LAMBDA pair : pair[1] = key)
    IN  [k \in 1 .. Len(mine) |-> mine[k][2]]

\* ------------------------------------------------- NetworkServiceConfig
\* var configMechanisms: the mechanism of each supported tag.
configMechanisms == [kernel |-> "KERNEL", vfio |-> "VFIO"]

\* A variant of LabelValue that takes the last value given.
LabelValueLast(v) == v[Len(v)]

\* cfg.Labels[k] = v[0]
LabelValue(v) == v[1]

\* A variant of Shorthand that leaves the descriptor as it is.
NoShorthand(c) == c

\* if cfg.NetworkService == "" && len(cfg.Path) > 0 {
\*     cfg.NetworkService = cfg.Path[0]; cfg.Path = cfg.Path[1:] }
Shorthand(c) ==
    IF c.ns = "" /\ Len(c.path) > 0
    THEN [c EXCEPT !.ns = c.path[1], !.path = Tail(c.path)]
    ELSE c

\* (cfg *NetworkServiceConfig) UnmarshalBinary(text): the error returned
\* ("ok" for nil) and cfg as the call leaves it.  The mechanism is assigned
\* before it is checked; path parts are appended to cfg.Path and labels are
\* written into cfg.Labels.
UnmarshalBinary(c, toks) ==
    LET u     == URLParse(toks)
        parts == Split(u.path, "/")
        segs  == SelectSeq([k \in 1 .. Len(parts) |-> Str(parts[k])],
                           LAMBDA segm : segm # "")
        pairs == ParseQuery(u.query)
        keys  == {pairs[k][1] : k \in 1 .. Len(pairs)}
    IN  IF u.scheme # "" /\ u.scheme \notin DOMAIN configMechanisms
        THEN [err |-> "invalid mechanism", cfg |-> [c EXCEPT !.mech = u.scheme]]
        ELSE [err |-> "ok",
              cfg |-> Shorthand(
                  [mech   |-> IF u.scheme = "" THEN ""
                              ELSE configMechanisms[u.scheme],
                   ns     |-> u.host,
                   path   |-> c.path \o segs,
                   labels |-> [k \in (DOMAIN c.labels) \cup keys |->
                                  IF k \in keys
                                  THEN LabelValue(ValuesOf(pairs, k))
                                  ELSE c.labels[k]]])]

\* A variant of IsValid that does not look at the length of the name.
IsValidAnyLength(c) ==
    IF c.ns = "" THEN "no network service"
    ELSE IF c.mech = "KERNEL"
         THEN IF Len(c.path) > 1 THEN "invalid interface name"
              ELSE IF c.path = <<>> THEN "panic"
              ELSE "ok"
    ELSE IF c.mech = "VFIO"
         THEN IF Len(c.path) > 0 THEN "no path supported" ELSE "ok"
    ELSE "ok"

\* (cfg *NetworkServiceConfig) IsValid(): the error returned, "ok" for nil,
\* "panic" for the index-out-of-range of cfg.Path[0] on an empty Path.
IsValid(c) ==
    IF c.ns = "" THEN "no network service"
    ELSE IF c.mech = "KERNEL"
         THEN IF Len(c.path) > 1 THEN "invalid interface name"
              ELSE IF c.path = <<>> THEN "panic"
              ELSE IF Len(c.path[1]) > 15 THEN "interface name too long"
              ELSE "ok"
    ELSE IF c.mech = "VFIO"
         THEN IF Len(c.path) > 0 THEN "no path supported" ELSE "ok"
    ELSE "ok"

\* A variant of MergeMechanism that takes the default tag as it is written.
MergeMechanismRaw(cfgMech, confMech) ==
    IF cfgMech = "" /\ confMech = ""
    THEN [err |-> "no mechanism", mech |-> cfgMech]
    ELSE IF cfgMech = ""
         THEN [err |-> "ok",
               mech |-> IF confMech \in DOMAIN configMechanisms
                        THEN configMechanisms[confMech] ELSE confMech]
    ELSE [err |-> "ok", mech |-> cfgMech]

\* A variant of MergeMechanism that looks up the descriptor's own mechanism
\* when it is set.
MergeMechanismRemap(cfgMech, confMech) ==
    IF cfgMech = "" /\ confMech = ""
    THEN [err |-> "no mechanism", mech |-> cfgMech]
    ELSE LET tag == IF cfgMech = "" THEN confMech ELSE cfgMech
         IN  IF tag \notin DOMAIN configMechanisms
             THEN [err |-> "invalid mechanism", mech |-> cfgMech]
             ELSE [err |-> "ok", mech |-> configMechanisms[tag]]

\* The first part of MergeWithConfigOptions: the mechanism of the merged
\* descriptor and the error returned, if any.
MergeMechanism(cfgMech, confMech) ==
    IF cfgMech = "" /\ confMech = ""
    THEN [err |-> "no mechanism", mech |-> cfgMech]
    ELSE IF cfgMech = "" /\ confMech # ""
         THEN IF confMech \notin DOMAIN configMechanisms
              THEN [err |-> "invalid mechanism", mech |-> cfgMech]
              ELSE [err |-> "ok", mech |-> configMechanisms[confMech]]
    ELSE [err |-> "ok", mech |-> cfgMech]

\* A variant of Absent that holds of every key.
AbsentAlways(labels, key) == TRUE

\* if _, ok := cfg.Labels[key]; !ok
Absent(labels, key) == key \notin DOMAIN labels

\* The body of the loop over conf.Labels for one entry kv.
MergeLabel(labels, kv) ==
    LET parts    == Split(kv, "=")
        keyValue == IF Len(parts) # 2 THEN <<"", "">>
                    ELSE <<Str(parts[1]), Str(parts[2])>>
        key      == Trim(keyValue[1])
    IN  IF Absent(labels, key)
        THEN [k \in (DOMAIN labels) \cup {key} |->
                 IF k = key THEN Trim(keyValue[2]) ELSE labels[k]]
        ELSE labels

\* for _, kv := range conf.Labels { ... }
RECURSIVE MergeLabels(_, _)
MergeLabels(labels, entries) ==
    IF entries = <<>> THEN labels
    ELSE MergeLabels(MergeLabel(labels, Head(entries)), Tail(entries))

\* (cfg *NetworkServiceConfig) MergeWithConfigOptions(conf): the error
\* returned ("ok" for nil, "panic" from IsValid) and cfg as the call leaves it.
MergeWithConfigOptions(c, cf) ==
    LET m == MergeMechanism(c.mech, cf.mech)
    IN  IF m.err # "ok" THEN [err |-> m.err, cfg |-> c]
        ELSE LET c1 == [c EXCEPT !.mech = m.mech,
                                 !.labels = MergeLabels(c.labels, cf.labels)]
             IN  [err |-> IsValid(c1), cfg |-> c1]

\* ------------------------------------------------- descriptor, the calls
\* conf.Mechanism as it may be configured.
DefaultMechs == {"", "kernel", "vfio", "memif"}

\* The entries conf.Labels may hold: key=value, the same with blanks around
\* the words, and an entry without "=".
DefaultEntries ==
    {<<"a", "=", "9">>, <<"a", "=", "8">>, <<" b ", "=", "9 ">>, <<"junk">>}

Defaults ==
    [mech : DefaultMechs, labels : SeqsUpTo(DefaultEntries, MaxDefaults)]

\* main() has not started: the descriptors are decoded before it runs.
MainIdle ==
    /\ n = 0
    /\ livenessOn = FALSE
    /\ twins = FALSE
    /\ pc = "subscribe"
    /\ cur = 0
    /\ signalled = FALSE
    /\ streamOpen = FALSE
    /\ cache = EmptyCache
    /\ received = EmptyCache
    /\ request = NoRequest
    /\ probe = "none"
    /\ reused = <<>>
    /\ inflight = [d \in Desc |-> 0]
    /\ attempts = [d \in Desc |-> 0]
    /\ okAt = [d \in Desc |-> 0]
    /\ established = [d \in Desc |-> FALSE]
    /\ deferred = <<>>
    /\ closeLog = <<>>
    /\ exit = "running"
    /\ sent = [d \in Desc |-> {}]

\* A text to decode into a zero NetworkServiceConfig.
InitConfig ==
    /\ MainIdle
    /\ RunIdle
    /\ form \in Forms
    /\ text = Render(form)
    /\ cfg = ZeroNSC
    /\ conf = ZeroConf
    /\ prev = ZeroNSC
    /\ res = "none"
    /\ op = "start"

\* The texts decoded into a descriptor that was decoded into before.
AgainForms ==
    { [scheme |-> "vfio", host |-> "ns", segs |-> <<>>, query |-> <<>>],
      [scheme |-> "kernel", host |-> "ns", segs |-> <<"nsm0">>,
       query |-> << <<"b", "1">> >>],
      [scheme |-> "memif", host |-> "ns", segs |-> <<>>, query |-> <<>>] }

\* cfg.UnmarshalBinary(text): envconfig decodes the text into the zero
\* descriptor; a further call decodes another text into the descriptor the
\* first call has written.
Unmarshal ==
    /\ op \in {"start", "parsed"}
    /\ \E f \in (IF op = "start" THEN {form} ELSE AgainForms) :
          /\ form' = f
          /\ text' = Render(f)
          /\ LET r == UnmarshalBinary(cfg, text')
             IN  cfg' = r.cfg /\ res' = r.err
    /\ prev' = cfg
    /\ op' = (IF op = "start" THEN "parsed" ELSE "parsed2")
    /\ UNCHANGED <<conf, mainVars, runVars>>

\* envconfig keeps the decoded descriptor in Config.NetworkServices; the
\* text is not kept.
Keep ==
    /\ op = "parsed"
    /\ res = "ok"
    /\ op' = "kept"
    /\ text' = <<>>
    /\ form' = NoForm
    /\ UNCHANGED <<cfg, conf, prev, res, mainVars, runVars>>

\* RunClient: err := cfg.MergeWithConfigOptions(rootConf) on a decoded
\* descriptor.
Merge ==
    /\ op = "kept"
    /\ \E cf \in Defaults :
          /\ conf' = cf
          /\ LET r == MergeWithConfigOptions(cfg, cf)
             IN  cfg' = r.cfg /\ res' = r.err
    /\ prev' = cfg
    /\ op' = "merged"
    /\ UNCHANGED <<text, form, mainVars, runVars>>

\* MergeWithConfigOptions called once more with the same Config.
MergeAgain ==
    /\ op = "merged"
    /\ res = "ok"
    /\ LET r == MergeWithConfigOptions(cfg, conf)
       IN  cfg' = r.cfg /\ res' = r.err
    /\ prev' = cfg
    /\ op' = "merged2"
    /\ UNCHANGED <<text, form, conf, mainVars, runVars>>

\* The fields of a descriptor written out again as
\*   [mechanism://]service[/segment]*[?key=value&...]
\* with the labels in the given order of their keys.
Serialize(c, order) ==
    LET head  == IF c.mech = "" THEN <<>> ELSE <<c.mech, "://">>
        segs  == [k \in 1 .. Len(c.path) |-> <<"/", c.path[k]>>]
        pairs == [k \in 1 .. Len(order) |-> <<order[k], "=", c.labels[order[k]]>>]
    IN  head \o Word(c.ns) \o Join(segs, "")
             \o (IF order = <<>> THEN <<>> ELSE <<"?">> \o Join(pairs, "&"))

\* The decoded descriptor is written out and the text is decoded again,
\* into a zero NetworkServiceConfig.
Reparse ==
    /\ op = "parsed"
    /\ res = "ok"
    /\ \E order \in Orders(DOMAIN cfg.labels) :
          /\ text' = Serialize(cfg, order)
          /\ LET r == UnmarshalBinary(ZeroNSC, text')
             IN  cfg' = r.cfg /\ res' = r.err
    /\ prev' = cfg
    /\ op' = "reparsed"
    /\ UNCHANGED <<form, conf, mainVars, runVars>>

NextConfig ==
    \/ Unmarshal
    \/ Reparse
    \/ Keep
    \/ Merge
    \/ MergeAgain

SpecConfig == InitConfig /\ [][NextConfig]_vars

\* ------------------------------------------------------------ RunClient
\* The most descriptors a Config holds.
MaxRun == 3

\* The texts of the descriptors in NSM_NETWORK_SERVICES.
RunForms ==
    { [scheme |-> "kernel", host |-> "ns", segs |-> <<"nsm0">>, query |-> <<>>],
      [scheme |-> "kernel", host |-> "ns", segs |-> <<"nsm0">>,
       query |-> << <<"a", "1">> >>],
      [scheme |-> "vfio", host |-> "ns", segs |-> <<>>, query |-> <<>>],
      [scheme |-> "", host |-> "", segs |-> <<"nsm0", "nsm0">>, query |-> <<>>],
      [scheme |-> "vfio", host |-> "ns", segs |-> <<"nsm0">>, query |-> <<>>],
      [scheme |-> "kernel", host |-> "ns", segs |-> <<>>, query |-> <<>>] }

\* envconfig.Process: each text is decoded into a zero NetworkServiceConfig.
RunDescs == {UnmarshalBinary(ZeroNSC, Render(f)).cfg : f \in RunForms}

\* The Configs RunClient is called with.
RootConfs ==
    [name : {"", Name}, connectTo : {"", "unix"}, mech : {"", "kernel"},
     labels : {<<>>, << <<"a", "=", "1">> >>},
     services : SeqsUpTo(RunDescs, MaxRun)]

\* (c *Config) IsValid(): the error returned, "ok" for nil.
ConfigIsValid(c) ==
    IF Len(c.services) = 0 THEN "no network services"
    ELSE IF c.name = "" THEN "no client name"
    ELSE IF c.connectTo = "" THEN "no connect url"
    ELSE "ok"

\* A variant of appendNSConf that starts a group for every descriptor.
appendNSConfAlways(i, nsConf, rcs) ==
    Append(rcs, [nsName |-> nsConf.ns, labels |-> nsConf.labels,
                 nsConfs |-> <<i>>])

\* appendNSConf(nsConf, requestConfigs); i is the index of nsConf in
\* rootConf.NetworkServices.
appendNSConf(i, nsConf, rcs) ==
    LET same(g) == rcs[g].nsName = nsConf.ns /\ rcs[g].labels = nsConf.labels
    IN  IF \E g \in 1 .. Len(rcs) : same(g)
        THEN LET g == CHOOSE h \in 1 .. Len(rcs) :
                          same(h) /\ \A j \in 1 .. (h - 1) : ~same(j)
             IN  [rcs EXCEPT ![g].nsConfs = Append(@, i)]
        ELSE Append(rcs, [nsName |-> nsConf.ns, labels |-> nsConf.labels,
                          nsConfs |-> <<i>>])

\* The client made for one descriptor of a group.
MechanismClient(nsConf) ==
    IF nsConf.mech = "KERNEL"
    THEN <<[client |-> "kernel", name |-> nsConf.path[1]]>>
    ELSE IF nsConf.mech = "VFIO"
    THEN <<[client |-> "vfio", name |-> "/dev/vfio"]>>
    ELSE <<>>

\* for _, nsConf := range requestConfig.nsConfs { clients = append(...) }
RECURSIVE MechanismClients(_, _)
MechanismClients(nsConfs, services) ==
    IF nsConfs = <<>> THEN <<>>
    ELSE MechanismClient(services[Head(nsConfs)])
             \o MechanismClients(Tail(nsConfs), services)

\* The mesh client given to RunClient.
NsmClient == [client |-> "nsm", name |-> ""]

\* A variant of RequestClient with the mesh client first.
RequestClientNsmFirst(rc, services) ==
    <<NsmClient>> \o MechanismClients(rc.nsConfs, services)

\* chain.NewNetworkServiceClient(append(clients, nsmClient)...)
RequestClient(rc, services) ==
    Append(MechanismClients(rc.nsConfs, services), NsmClient)

\* fmt.Sprintf("%s-%d", rootConf.Name, len(connections))
RunConnId(name, k) == <<name, k>>

\* A variant of KeepConnection that puts the new connection first.
KeepConnectionFirst(conns, conn) == <<conn>> \o conns

\* connections = append(connections, &Connection{...})
KeepConnection(conns, conn) == Append(conns, conn)

\* RunClient is called with a Config decoded by envconfig.
InitRun ==
    /\ MainIdle
    /\ CfgIdle
    /\ rootConf \in RootConfs
    /\ rpc = "validate"
    /\ ri = 0
    /\ requestConfigs = <<>>
    /\ connections = <<>>
    /\ issued = <<>>
    /\ ret = NoReturn

\* if err := rootConf.IsValid(); err != nil { return nil, err }
RunValidate ==
    /\ rpc = "validate"
    /\ LET e == ConfigIsValid(rootConf)
       IN  IF e = "ok"
           THEN rpc' = "merge" /\ ri' = 1 /\ ret' = ret
           ELSE rpc' = "returned" /\ ri' = ri
                /\ ret' = [err |-> e, conns |-> <<>>]
    /\ UNCHANGED <<rootConf, requestConfigs, connections, issued, mainVars,
                   cfgVars>>

\* One round of the first loop: MergeWithConfigOptions on the descriptor,
\* return nil, err on an error, appendNSConf otherwise.
RunMerge ==
    /\ rpc = "merge"
    /\ LET r == MergeWithConfigOptions(rootConf.services[ri],
                    [mech |-> rootConf.mech, labels |-> rootConf.labels])
       IN  /\ rootConf' = [rootConf EXCEPT !.services[ri] = r.cfg]
           /\ IF r.err = "panic"
              THEN /\ rpc' = "panicked"
                   /\ UNCHANGED <<ri, requestConfigs, ret>>
              ELSE IF r.err # "ok"
              THEN /\ rpc' = "returned"
                   /\ ret' = [err |-> r.err, conns |-> <<>>]
                   /\ UNCHANGED <<ri, requestConfigs>>
              ELSE /\ requestConfigs' = appendNSConf(ri, r.cfg, requestConfigs)
                   /\ ret' = ret
                   /\ IF ri < Len(rootConf.services)
                      THEN rpc' = "merge" /\ ri' = ri + 1
                      ELSE rpc' = "request" /\ ri' = 1
    /\ UNCHANGED <<connections, issued, mainVars, cfgVars>>

\* One round of the second loop: the chain of the group, the request,
\* requestClient.Request; cgroupDirPath may fail for a vfio descriptor.
RunRequest ==
    /\ rpc = "request"
    /\ LET rc      == requestConfigs[ri]
           hasVfio == \E k \in 1 .. Len(rc.nsConfs) :
                          rootConf.services[rc.nsConfs[k]].mech = "VFIO"
           req     == [id     |-> RunConnId(rootConf.name, Len(connections)),
                       ns     |-> rc.nsName,
                       labels |-> rc.labels,
                       chain  |-> RequestClient(rc, rootConf.services)]
       IN  \/ /\ hasVfio
              /\ rpc' = "returned"
              /\ ret' = [err |-> "cgroup", conns |-> connections]
              /\ UNCHANGED <<ri, connections, issued>>
           \/ /\ issued' = Append(issued, req)
              /\ \E ok \in BOOLEAN :
                    IF ok
                    THEN /\ connections' = KeepConnection(connections, req)
                         /\ IF ri < Len(requestConfigs)
                            THEN rpc' = "request" /\ ri' = ri + 1 /\ ret' = ret
                            ELSE /\ rpc' = "returned" /\ ri' = ri
                                 /\ ret' = [err |-> "ok",
                                            conns |-> connections']
                    ELSE /\ rpc' = "returned"
                         /\ ret' = [err |-> "request failed",
                                    conns |-> connections]
                         /\ UNCHANGED <<ri, connections>>
    /\ UNCHANGED <<rootConf, requestConfigs, mainVars, cfgVars>>

NextRun ==
    \/ RunValidate
    \/ RunMerge
    \/ RunRequest

SpecRun == InitRun /\ [][NextRun]_vars

\* The exit status of the process: 0 when main() returns, 1 from
\* logger.Fatalf (os.Exit(1)), 2 from a panic that unwinds main().
ExitStatus ==
    CASE exit = "return" -> 0
      [] exit = "fatal"  -> 1
      [] exit = "panic"  -> 2
      [] OTHER           -> -1

\* The number of Close calls made for network service d.
CloseCount(d) == Cardinality({k \in 1 .. Len(closeLog) : closeLog[k].d = d})

TypeOK ==
    /\ n \in 0 .. MaxNS
    /\ pc \in {"subscribe", "recv", "construct", "inflight", "teardown", "exited"}
    /\ cur \in 0 .. MaxNS
    /\ exit \in {"running", "return", "panic", "fatal"}
    /\ probe \in ProbeOutcomes \cup {"none"}
    /\ \A d \in Desc : inflight[d] \in 0 .. 1 /\ attempts[d] \in 0 .. MaxAttempts

\* The network services closed, in the order of the Close calls.
ClosedOrder == [k \in 1 .. Len(closeLog) |-> closeLog[k].d]

\* The established network services in the order they were established:
\* main() handles them by increasing index.
EstablishedOrder ==
    SelectSeq([k \in 1 .. MaxNS |-> k - 1], LAMBDA d : established[d])

Reverse(q) == [k \in 1 .. Len(q) |-> q[Len(q) + 1 - k]]

IsPrefix(a, b) == Len(a) <= Len(b) /\ SubSeq(b, 1, Len(a)) = a

\* ------------------------------------------------------------------ claims

\* C1 (as claimed): when the process has ended and the termination signal was
\* raised, every established network service has exactly one Close call and
\* every other one has none.
C1_CleanupCompleteness ==
    (pc = "exited" /\ signalled) =>
        \A d \in Desc : CloseCount(d) = (IF established[d] THEN 1 ELSE 0)

\* C2: every Request outstanding for network service i carries the connection
\* id "<name>-<i>": on the first attempt, on a retry, with a reused monitored
\* connection and with a reselect.
C2_StableId ==
    pc = "inflight" => request.conn.id = ConnId(cur)

\* C2 witness: a retry of network service 1 that reuses a monitored
\* connection and asks for a reselect.
C2_Witness ==
    /\ pc = "inflight"
    /\ cur = 1
    /\ attempts[cur] >= 2
    /\ reused # <<>>
    /\ reused[1].id # ConnId(cur)
    /\ request.conn.state = "RESELECT_REQUESTED"
    /\ request.conn.id = ConnId(1)

\* C3: a reused monitored connection found DOWN whose liveness probe reports
\* not alive (dead, or timed out) gives a request with no mechanism, an empty
\* endpoint name, no context and state RESELECT_REQUESTED.
C3_ReselectOnDeadPath ==
    (pc = "inflight" /\ reused # <<>> /\ reused[1].state = "DOWN"
        /\ probe \in {"dead", "timeout"}) =>
        /\ request.conn.mech = "nil"
        /\ request.conn.nse = ""
        /\ request.conn.context = "nil"
        /\ request.conn.state = "RESELECT_REQUESTED"

\* C3 witness: a DOWN connection with an endpoint is reused, the probe times
\* out, and the request asks for a reselect.
C3_Witness ==
    /\ pc = "inflight"
    /\ reused # <<>>
    /\ reused[1].state = "DOWN"
    /\ reused[1].nse = "nse-1"
    /\ probe = "timeout"
    /\ request.conn.state = "RESELECT_REQUESTED"

\* C4: a reused monitored connection found DOWN whose liveness probe reports
\* alive is requested with the endpoint name, mechanism and context it was
\* found with, and its state is not RESELECT_REQUESTED.
C4_NoReselectOnLivePath ==
    (pc = "inflight" /\ reused # <<>> /\ reused[1].state = "DOWN"
        /\ probe = "alive") =>
        /\ request.conn.nse = reused[1].nse
        /\ request.conn.mech = reused[1].mech
        /\ request.conn.context = reused[1].context
        /\ request.conn.state # "RESELECT_REQUESTED"

\* C4 witness: a DOWN connection is reused after the probe answered alive.
C4_Witness ==
    /\ pc = "inflight"
    /\ reused # <<>>
    /\ reused[1].state = "DOWN"
    /\ probe = "alive"
    /\ request.conn.state = "DOWN"
    /\ request.conn.nse = "nse-1"

\* C5 (as claimed): once the termination signal has been raised no new
\* Request is issued.
C5_NoRequestAfterSignal ==
    [][signalled => \A d \in Desc : inflight'[d] <= inflight[d]]_vars

\* C6 (as claimed): every configured network service eventually issues its
\* own Request unless the process ends, whatever happens to the Requests of
\* the others.
C6_Independent ==
    \A d \in Desc :
        <>(d >= n \/ attempts[d] > 0 \/ pc \in {"teardown", "exited"})

\* C6 (amended): a network service issues a Request only after every network
\* service configured before it is established, and the established ones
\* stay established while a later one fails.
C6_Sequential ==
    \A d \in Desc : attempts[d] > 0 => \A e \in 0 .. (d - 1) : established[e]

\* C6 witness: network service 0 failed before it was established, and only
\* then network service 1 issued its Request.
C6_Witness ==
    /\ okAt[0] >= 2
    /\ established[0]
    /\ attempts[1] > 0

\* C7: a network service never has two Requests outstanding, and none is
\* outstanding once it is established.
C7_AtMostOneInFlight ==
    \A d \in Desc :
        /\ inflight[d] <= 1
        /\ inflight[d] = 1 => (pc = "inflight" /\ cur = d /\ ~established[d])

\* C7 witness: a retry is outstanding after an earlier attempt failed.
C7_Witness ==
    /\ pc = "inflight"
    /\ inflight[cur] = 1
    /\ attempts[cur] >= 2

\* C8: no Request is issued for a network service after its Request
\* succeeded; with one network service whose first Request is accepted there
\* is one Request, no Close before the signal and one Close at the end.
C8_EstablishedIsTerminal ==
    /\ \A d \in Desc : okAt[d] # 0 => (attempts[d] = okAt[d] /\ inflight[d] = 0)
    /\ (n = 1 /\ okAt[0] = 1) =>
          /\ attempts[0] = 1
          /\ ~signalled => closeLog = <<>>
          /\ CloseCount(0) <= 1
          /\ pc = "exited" => CloseCount(0) = 1

\* C8 witness: one network service, accepted at once, closed once at the end.
C8_Witness ==
    /\ n = 1
    /\ okAt[0] = 1
    /\ pc = "exited"
    /\ signalled
    /\ CloseCount(0) = 1

\* C9 (as claimed): the Close calls are made in the order of establishment.
C9_CloseInEstablishedOrder ==
    (pc = "exited" /\ exit # "fatal") => ClosedOrder = EstablishedOrder

\* C9 (amended): the Close calls are made in the reverse of the order of
\* establishment (last established, first closed).
C9_CloseInReverseOrder ==
    /\ IsPrefix(ClosedOrder, Reverse(EstablishedOrder))
    /\ (pc = "exited" /\ exit # "fatal") => ClosedOrder = Reverse(EstablishedOrder)

\* C9 witness: two connections were established and both closed.
C9_Witness ==
    /\ pc = "exited"
    /\ established[0] /\ established[1]
    /\ ClosedOrder = <<1, 0>>

\* C10: when a Close failed during teardown, every established network
\* service still has had its Close call by the end.
C10_TeardownToleratesFailure ==
    (pc = "exited" /\ \E k \in 1 .. Len(closeLog) : ~closeLog[k].ok) =>
        \A d \in Desc : established[d] => CloseCount(d) = 1

\* C10 witness: the first Close failed and the second was still made.
C10_Witness ==
    /\ pc = "exited"
    /\ Len(closeLog) = 2
    /\ ~closeLog[1].ok
\* Two configured network services with the same name and labels and
\* different path segments.
Twins(d, e) ==
    /\ d # e /\ d < n /\ e < n
    /\ DescNS(d) = DescNS(e)
    /\ DescLabels(d) = DescLabels(e)
    /\ DescPath(d) # DescPath(e)

C13_SubscribeBeforeRequest ==
    [][/\ \A d \in Desc :
             (attempts[d] = 0 /\ attempts'[d] > 0) => pc = "construct"
       /\ (pc = "recv" /\ pc' # "recv") =>
             (pc' = "construct" \/ exit' \in {"fatal", "return"})]_vars

\* The match the claim describes: first segment id and mechanism type.
ClaimedMatch(conn, i) ==
    /\ conn.path # <<>>
    /\ conn.path[1].segs # <<>>
    /\ conn.path[1].segs[1] = <<Name, i>>
    /\ conn.mech = DescMech(i)

\* C14 (as claimed): the request in flight reuses a cached connection exactly
\* when the cache holds one whose first path segment has the connection id
\* and whose mechanism type is the URL's; the reused one is handed on with
\* path index 0 and the connection id.
C14_LookupMatchRule ==
    pc = "inflight" =>
        /\ reused = <<>> => \A k \in DOMAIN cache : ~ClaimedMatch(cache[k], cur)
        /\ reused # <<>> =>
              /\ ClaimedMatch(reused[1], cur)
              /\ request.conn.path[1].index = 0
              /\ request.conn.id = <<Name, cur>>

\* C14 (amended): the same with the path index of the cached connection
\* required to be 1.
C14_LookupMatchRuleIndexed ==
    pc = "inflight" =>
        /\ reused = <<>> =>
              \A k \in DOMAIN cache :
                  ~(ClaimedMatch(cache[k], cur) /\ cache[k].path[1].index = 1)
        /\ reused # <<>> =>
              /\ ClaimedMatch(reused[1], cur)
              /\ reused[1].path[1].index = 1
              /\ request.conn.path[1].index = 0
              /\ request.conn.id = <<Name, cur>>

\* A request is in flight that reuses nothing although the cache holds a
\* connection with the id and the mechanism type, at path index 0.
C14_Witness ==
    /\ pc = "inflight"
    /\ reused = <<>>
    /\ \E k \in DOMAIN cache :
          ClaimedMatch(cache[k], cur) /\ cache[k].path[1].index = 0

\* The non-empty path parts written in the text, in order.
WrittenSegs == SelectSeq(form.segs, LAMBDA w : w # "")

\* The keys written in the query of the text.
WrittenKeys == {form.query[k][1] : k \in 1 .. Len(form.query)}

\* The first value written for a key in the query of the text.
FirstWritten(key) ==
    form.query[CHOOSE k \in 1 .. Len(form.query) :
                   /\ form.query[k][1] = key
                   /\ \A j \in 1 .. (k - 1) : form.query[j][1] # key][2]

\* C15: a text mechanism://service/seg1/.../segN?k=v... with a supported
\* mechanism tag and a service is decoded without error into that tag's
\* mechanism, the service as network service name, the non-empty path parts
\* in order, and one label per query key with the first value given for it.
C15_DescriptorParsing ==
    (op = "parsed" /\ form.scheme \in {"kernel", "vfio"} /\ form.host # "") =>
        /\ res = "ok"
        /\ cfg.mech = (IF form.scheme = "kernel" THEN "KERNEL" ELSE "VFIO")
        /\ cfg.ns = form.host
        /\ cfg.path = WrittenSegs
        /\ DOMAIN cfg.labels = WrittenKeys
        /\ \A key \in WrittenKeys : cfg.labels[key] = FirstWritten(key)

\* Such a text with an empty path part and a key given twice was decoded.
C15_Witness ==
    /\ op = "parsed"
    /\ form.scheme = "kernel" /\ form.host = "ns"
    /\ form.segs = <<"", "nsm0">>
    /\ form.query = << <<"a", "2">>, <<"a", "1">> >>
    /\ cfg.path = <<"nsm0">>
    /\ cfg.labels["a"] = "2"

\* C16 (as claimed): a text without host and with a path part is decoded
\* with the first part as network service name, the other parts as path
\* segments, and no mechanism.
C16_ServiceShorthand ==
    (op = "parsed" /\ res = "ok" /\ form.host = "" /\ WrittenSegs # <<>>) =>
        /\ cfg.ns = WrittenSegs[1]
        /\ cfg.path = Tail(WrittenSegs)
        /\ cfg.mech = ""

\* C16 (amended): the same, with the mechanism unset exactly when the text
\* has no scheme; a scheme gives its mechanism here too.
C16_ServiceShorthandScheme ==
    (op = "parsed" /\ res = "ok" /\ form.host = "" /\ WrittenSegs # <<>>) =>
        /\ cfg.ns = WrittenSegs[1]
        /\ cfg.path = Tail(WrittenSegs)
        /\ form.scheme = "" => cfg.mech = ""
        /\ form.scheme # "" => cfg.mech \in {"KERNEL", "VFIO"}

\* A text with a scheme, no host and a path part was decoded: the part is
\* the network service name and the mechanism is set.
C16_Witness ==
    /\ op = "parsed" /\ res = "ok"
    /\ form.scheme = "kernel" /\ form.host = ""
    /\ form.segs = <<"nsm0", "nsm-interface-16">>
    /\ cfg.ns = "nsm0"
    /\ cfg.path = <<"nsm-interface-16">>
    /\ cfg.mech = "KERNEL"

\* C17 (as claimed): decoding fails with the invalid-mechanism error exactly
\* when the scheme is written and is not, letter for letter, a supported tag.
C17_UnknownMechanismRejected ==
    op = "parsed" =>
        (res = "invalid mechanism" <=> form.scheme \notin {"", "kernel", "vfio"})

\* C17 (amended): the scheme is compared in lower case.
C17_UnknownMechanismLowerCase ==
    op = "parsed" =>
        (res = "invalid mechanism" <=>
            form.scheme \notin {"", "kernel", "Kernel", "KERNEL",
                                "vfio", "Vfio", "VFIO"})

\* A text whose scheme is a supported tag written with a capital letter was
\* decoded without error.
C17_Witness ==
    /\ op = "parsed"
    /\ form.scheme = "Kernel"
    /\ res = "ok"
    /\ cfg.mech = "KERNEL"

\* C18: a merge leaves a mechanism that is set, the value of every label
\* the descriptor has, the network service name and the path segments as
\* they were, whatever the defaults are and whatever it returns.
C18_MergeNeverOverrides ==
    op \in {"merged", "merged2"} =>
        /\ prev.mech # "" => cfg.mech = prev.mech
        /\ \A k \in DOMAIN prev.labels :
              k \in DOMAIN cfg.labels /\ cfg.labels[k] = prev.labels[k]
        /\ cfg.ns = prev.ns
        /\ cfg.path = prev.path

\* A descriptor with a mechanism and a label was merged with defaults that
\* name another mechanism and another value for that label.
C18_Witness ==
    /\ op = "merged" /\ res = "ok"
    /\ prev.mech = "VFIO" /\ conf.mech = "kernel"
    /\ "a" \in DOMAIN prev.labels /\ prev.labels["a"] = "1"
    /\ conf.labels = << <<"a", "=", "9">> >>

\* The default entries of the form key=value, their keys and values.
KeyValueEntries == {k \in 1 .. Len(conf.labels) :
                       Len(conf.labels[k]) = 3 /\ conf.labels[k][2] = "="}

DefaultKey(k) == IF conf.labels[k][1] = " b " THEN "b" ELSE conf.labels[k][1]

DefaultValue(k) == IF conf.labels[k][3] = "9 " THEN "9" ELSE conf.labels[k][3]

DefaultKeys == {DefaultKey(k) : k \in KeyValueEntries}

FirstDefault(key) ==
    DefaultValue(CHOOSE k \in KeyValueEntries :
                     /\ DefaultKey(k) = key
                     /\ \A j \in KeyValueEntries : j < k => DefaultKey(j) # key)

C20_MergeIdempotent ==
    op = "merged2" => (res = "ok" /\ cfg = prev)

\* A descriptor was merged twice with defaults that gave it the mechanism
\* and two labels.
C20_Witness ==
    /\ op = "merged2" /\ res = "ok"
    /\ conf.mech = "kernel" /\ Len(conf.labels) = 2
    /\ cfg.mech = "KERNEL"
    /\ {"a", "b"} \subseteq DOMAIN cfg.labels
    /\ cfg.labels["b"] = "9"

\* The results of a merge that are error values.
MergeErrors ==
    {"no mechanism", "invalid mechanism", "no network service",
     "invalid interface name", "interface name too long", "no path supported"}

\* C21: a merge returns an error for a kernel descriptor with two or more
\* path segments or with a segment of more than 15 characters and for a vfio
\* descriptor with a path segment; it returns no error for a kernel
\* descriptor with one segment of at most 15 characters and for a vfio
\* descriptor without segments, when the descriptor names a network service
\* (a descriptor without one is rejected for that, before the mechanism is
\* looked at).
C21_MechanismValidation ==
    op \in {"merged", "merged2"} =>
        /\ (cfg.mech = "KERNEL" /\ Len(cfg.path) >= 2) => res \in MergeErrors
        /\ (cfg.mech = "KERNEL" /\ Len(cfg.path) = 1 /\ cfg.path[1] = "nsm-interface-16")
              => res \in MergeErrors
        /\ (cfg.mech = "VFIO" /\ Len(cfg.path) >= 1) => res \in MergeErrors
        /\ (cfg.mech = "KERNEL" /\ Len(cfg.path) = 1 /\ cfg.path[1] = "nsm0")
              => res = "ok"
        /\ (cfg.mech = "VFIO" /\ cfg.path = <<>> /\ cfg.ns # "") => res = "ok"

\* A kernel descriptor with one segment of 16 characters was merged.
C21_Witness ==
    /\ op = "merged"
    /\ cfg.mech = "KERNEL"
    /\ cfg.path = <<"nsm-interface-16">>
    /\ res = "interface name too long"

\* C22 (as claimed): a merge of a kernel descriptor without path segments
\* returns an error value; it neither accepts the descriptor nor panics.
C22_KernelPathCardinality ==
    (op \in {"merged", "merged2"} /\ cfg.mech = "KERNEL" /\ cfg.path = <<>>) =>
        res \in MergeErrors

C24_CacheReadOnly ==
    [][(pc = "construct" /\ pc' = "inflight") => cache' = cache]_vars

\* C25 (as claimed): after a failed Request the loop waits before it builds
\* and issues the next Request: no Request is issued by the step that
\* follows a failure.
C25_RetryWait ==
    [][(pc = "construct" /\ attempts[cur] > 0) => pc' # "inflight"]_vars

\* C26: a request built while the cache holds no connection that matches
\* has the connection id, network service name and labels of the URL, no
\* endpoint name, no mechanism, one mechanism preference made from the URL,
\* and a state other than RESELECT_REQUESTED.
C26_FreshRequest ==
    (pc = "inflight" /\ reused = <<>>
       /\ \A k \in DOMAIN cache :
             ~(ClaimedMatch(cache[k], cur) /\ cache[k].path[1].index = 1)) =>
        /\ request.conn.id = <<Name, cur>>
        /\ request.conn.ns = DescNS(cur)
        /\ request.conn.labels = DescLabels(cur)
        /\ request.conn.nse = ""
        /\ request.conn.mech = "nil"
        /\ request.conn.state # "RESELECT_REQUESTED"
        /\ Len(request.prefs) = 1
        /\ request.prefs[1].type = DescMech(cur)
        /\ request.prefs[1].path = DescPath(cur)

\* A fresh request is in flight although the cache holds connections, one
\* of them DOWN.
C26_Witness ==
    /\ pc = "inflight"
    /\ reused = <<>>
    /\ request.conn.state = "UP"
    /\ \E k \in DOMAIN cache : cache[k].state = "DOWN"

\* C27: a request that asks for a reselect has the connection id of the
\* URL, the network service name, labels and path segments of the reused
\* connection and the mechanism preference of the URL; apart from the path
\* index and the id, which every reuse sets, only mechanism, endpoint name,
\* context and state differ from the connection as it was found.
C27_ReselectPreserves ==
    (pc = "inflight" /\ reused # <<>> /\ reused[1].state = "DOWN"
       /\ request.conn.state = "RESELECT_REQUESTED") =>
        /\ request.conn.id = <<Name, cur>>
        /\ request.conn.ns = reused[1].ns
        /\ request.conn.labels = reused[1].labels
        /\ request.conn.path = <<[index |-> 0, segs |-> reused[1].path[1].segs]>>
        /\ request.prefs = <<[type |-> DescMech(cur), path |-> DescPath(cur)]>>
        /\ request.conn.mech = "nil"
        /\ request.conn.nse = ""
        /\ request.conn.context = "nil"

\* A reselect of a connection found with endpoint, mechanism and context is
\* in flight.
C27_Witness ==
    /\ pc = "inflight"
    /\ reused # <<>>
    /\ reused[1].state = "DOWN" /\ reused[1].nse # "" /\ reused[1].mech # "nil"
    /\ request.conn.state = "RESELECT_REQUESTED"
    /\ request.conn.path # <<>>

\* C28 (as claimed): the cache holds, for every key an event has carried,
\* the connection of the most recent event that carried it; no key is
\* removed.
C28_LatestWins ==
    \A k \in DOMAIN received : k \in DOMAIN cache /\ cache[k] = received[k]

\* C29: once the monitor stream of the current network service has ended
\* while the inner loop runs, the receiver stores nothing more, the process
\* has not ended because of it, the map keeps every key it was given, and
\* the loop can take its next step: build and issue a Request, or get the
\* answer of the outstanding one.
C29_StreamBreakTolerated ==
    (~streamOpen /\ pc \in {"construct", "inflight"}) =>
        /\ ~ENABLED MonitorEvent
        /\ exit = "running"
        /\ DOMAIN cache = DOMAIN received
        /\ pc = "construct" => ENABLED IssueRequest
        /\ pc = "inflight" => ENABLED RequestReturn

\* No signal has arrived, the stream has ended, and a second or later
\* Request that reuses a connection of the map is outstanding.
C29_Witness ==
    /\ ~streamOpen
    /\ ~signalled
    /\ pc = "inflight"
    /\ attempts[cur] >= 2
    /\ reused # <<>>
    /\ exit = "running"

\* C30 (as claimed): when MonitorConnections fails for a network service,
\* no Request has been issued and no Close is deferred for it, and every
\* network service established before it has been closed once by the time
\* the process has ended.
C30_SubscribeFailurePerDescriptor ==
    (pc = "exited" /\ exit = "fatal") =>
        /\ attempts[cur] = 0
        /\ ~established[cur]
        /\ \A k \in 1 .. Len(deferred) : deferred[k] # cur
        /\ \A d \in Desc : (d # cur /\ established[d]) => CloseCount(d) = 1

\* RunClient has ended: it returned, or a panic unwound it.
RunDone == rpc \in {"returned", "panicked"}

\* The Config's own defaults, as MergeWithConfigOptions reads them.
RootDefaults == [mech |-> rootConf.mech, labels |-> rootConf.labels]

\* Merge or validation does not succeed for some configured descriptor.
SomeMergeFails ==
    \E i \in 1 .. Len(rootConf.services) :
        MergeWithConfigOptions(rootConf.services[i], RootDefaults).err # "ok"

\* C31 (as claimed): when the Config is invalid, or merge or validation
\* fails for one of its descriptors, RunClient has issued no Request when
\* it ends, and it returns the error and no connections.
C31_ConfigurationErrorsFirst ==
    (RunDone /\ (ConfigIsValid(rootConf) # "ok" \/ SomeMergeFails)) =>
        /\ issued = <<>>
        /\ ret.err \notin {"none", "ok"}
        /\ ret.conns = <<>>

\* C32: the Requests are issued group after group in the order of the
\* configuration, each after the one before it succeeded.  When RunClient
\* returns without an error it returns the connections of all the Requests
\* in their order, one per group; when a Request fails it is the last one
\* issued and RunClient returns its error with the connections of the
\* Requests before it.
C32_SuccessfulPrefix ==
    /\ Len(issued) <= Len(connections) + 1
    /\ IsPrefix(connections, issued)
    /\ \A k \in 1 .. Len(issued) :
          /\ issued[k].ns = requestConfigs[k].nsName
          /\ issued[k].labels = requestConfigs[k].labels
          /\ \A j \in 1 .. (k - 1) :
                requestConfigs[j].nsConfs[1] < requestConfigs[k].nsConfs[1]
    /\ (rpc = "returned" /\ ret.err = "ok") =>
          /\ ret.conns = issued
          /\ Len(issued) = Len(requestConfigs)
    /\ (rpc = "returned" /\ ret.err = "request failed") =>
          /\ Len(issued) = Len(connections) + 1
          /\ ret.conns = SubSeq(issued, 1, Len(issued) - 1)

\* RunClient has returned the error of its third Request with the two
\* connections made before it.
C32_Witness ==
    /\ rpc = "returned"
    /\ ret.err = "request failed"
    /\ Len(ret.conns) = 2
    /\ Len(issued) = 3

\* The group that holds descriptor i.
GroupOf(i) ==
    CHOOSE g \in 1 .. Len(requestConfigs) :
        \E m \in 1 .. Len(requestConfigs[g].nsConfs) :
            requestConfigs[g].nsConfs[m] = i

\* C33: once every descriptor is merged, each is in one group; two are in
\* the same group exactly when their network service names and their label
\* maps are equal; the groups stand in the order of their first descriptors
\* and hold their descriptors in the configured order.  The k-th Request
\* issued is the one of the k-th group: its connection id is
\* "<name>-<k-1>", it carries the name and labels of the group, and its
\* chain has one mechanism client per descriptor of the group, in order,
\* and the mesh client last.  When RunClient returns without an error
\* every group has had its Request.
C33_RequestGrouping ==
    (rpc = "request" \/ (rpc = "returned" /\ issued # <<>>)) =>
        LET svc == rootConf.services
            N   == Len(svc)
            G   == Len(requestConfigs)
        IN  /\ \A i \in 1 .. N :
                  \E g \in 1 .. G : \E m \in 1 .. Len(requestConfigs[g].nsConfs) :
                      /\ requestConfigs[g].nsConfs[m] = i
                      /\ \A h \in 1 .. G : \A l \in 1 .. Len(requestConfigs[h].nsConfs) :
                            requestConfigs[h].nsConfs[l] = i => (h = g /\ l = m)
            /\ \A i, j \in 1 .. N :
                  (GroupOf(i) = GroupOf(j)) <=>
                      (svc[i].ns = svc[j].ns /\ svc[i].labels = svc[j].labels)
            /\ \A g \in 1 .. G :
                  LET rc == requestConfigs[g]
                  IN  /\ rc.nsConfs # <<>>
                      /\ rc.nsName = svc[rc.nsConfs[1]].ns
                      /\ rc.labels = svc[rc.nsConfs[1]].labels
                      /\ \A m \in 2 .. Len(rc.nsConfs) :
                            rc.nsConfs[m - 1] < rc.nsConfs[m]
                      /\ \A h \in 1 .. (g - 1) :
                            requestConfigs[h].nsConfs[1] < rc.nsConfs[1]
            /\ Len(issued) <= G
            /\ (rpc = "returned" /\ ret.err = "ok") => Len(issued) = G
            /\ \A k \in 1 .. Len(issued) :
                  LET rc == requestConfigs[k]
                      ch == issued[k].chain
                  IN  /\ issued[k].id = <<rootConf.name, k - 1>>
                      /\ issued[k].ns = rc.nsName
                      /\ issued[k].labels = rc.labels
                      /\ Len(ch) = Len(rc.nsConfs) + 1
                      /\ ch[Len(ch)] = [client |-> "nsm", name |-> ""]
                      /\ \A m \in 1 .. Len(rc.nsConfs) :
                            LET d == svc[rc.nsConfs[m]]
                            IN  \/ /\ d.mech = "KERNEL"
                                   /\ ch[m] = [client |-> "kernel",
                                               name |-> d.path[1]]
                                \/ /\ d.mech = "VFIO"
                                   /\ ch[m].client = "vfio"

\* RunClient has returned two connections for three descriptors: the first
\* and the third are in one group, the second is alone in the other.
C33_Witness ==
    /\ rpc = "returned"
    /\ ret.err = "ok"
    /\ Len(rootConf.services) = 3
    /\ Len(requestConfigs) = 2
    /\ requestConfigs[1].nsConfs = <<1, 3>>
    /\ Len(ret.conns) = 2
    /\ Len(issued[1].chain) = 3

\* C34 (as claimed): a text decoded into a descriptor that holds the
\* fields of an earlier call gives the descriptor it gives when decoded
\* into a zero one, and a call that returns an error leaves the descriptor
\* as it was.
C34_ParsingPure ==
    (op \in {"parsed", "parsed2"}) =>
        /\ res = "ok" => cfg = UnmarshalBinary(ZeroNSC, text).cfg
        /\ res # "ok" => cfg = prev

\* C35 (as claimed): the request built for an attempt can be built again:
\* a failed Request and no event leave the map as the build left it, and
\* constructRequest on that map, for some Range order and some result of
\* the probe, gives the request of the failed attempt.
C35_RebuildRepeatable ==
    [][(pc = "construct" /\ pc' = "inflight") =>
          \E order \in Orders(DOMAIN cache'), outcome \in ProbeOutcomes :
              LET r == ConstructRequest(cache', cur, order, livenessOn, outcome)
              IN  ~r.panic /\ r.request = request']_vars

\* The request in flight is the outcome of the reselect block.
Reselected ==
    /\ request.conn.state = "RESELECT_REQUESTED"
    /\ request.conn.mech = "nil"
    /\ request.conn.nse = ""

\* C36: with the liveness check disabled the probe is not called and every
\* reused connection found DOWN is requested with a reselect; with the
\* check enabled a reused connection is requested with a reselect exactly
\* when it was found DOWN and the probe did not answer alive; a connection
\* found in another state is requested as found, without probe and without
\* reselect, and so is a fresh one.
C36_LivenessFlag ==
    (pc = "inflight") =>
        /\ ~livenessOn => probe = "none"
        /\ (~livenessOn /\ reused # <<>> /\ reused[1].state = "DOWN") =>
              Reselected
        /\ (livenessOn /\ reused # <<>>) =>
              (Reselected <=>
                  (reused[1].state = "DOWN" /\ probe \in {"dead", "timeout"}))
        /\ (reused # <<>> /\ reused[1].state # "DOWN") =>
              /\ probe = "none"
              /\ ~Reselected
              /\ request.conn.state = reused[1].state
              /\ request.conn.mech = reused[1].mech
        /\ reused = <<>> => (probe = "none" /\ ~Reselected)

\* The liveness check is disabled and a connection found DOWN, with its
\* endpoint, is requested with a reselect, the probe not called.
C36_Witness ==
    /\ pc = "inflight"
    /\ ~livenessOn
    /\ reused # <<>>
    /\ reused[1].state = "DOWN"
    /\ reused[1].nse # ""
    /\ probe = "none"
    /\ Reselected

\* C37 (as claimed): whatever the map holds, building a request completes:
\* the step that leaves the top of the inner loop ends with a Request in
\* flight, for a reused or a fresh connection, and the process running.
C37_LookupTotal ==
    [][(pc = "construct" /\ pc' # "construct") =>
          (pc' = "inflight" /\ exit' = "running")]_vars

\* C38 (as claimed): after a merge that succeeded every label key of the
\* descriptor is a key it had before or the trimmed key of a key=value
\* entry of the default labels; an entry of another form adds no label.
C38_MergeAddsOnlyDefaultKeys ==
    (op = "merged" /\ res = "ok") =>
        DOMAIN cfg.labels \subseteq (DOMAIN prev.labels) \cup DefaultKeys

\* C39: every Close is called while main() runs its deferred functions,
\* before cancel() of the root context, and the context it is given comes
\* from the root context, not from signalCtx, and is not done at the call,
\* although the signal has arrived.
C39_TeardownOnLiveContext ==
    /\ \A k \in 1 .. Len(closeLog) :
          /\ closeLog[k].live
          /\ closeLog[k].parent # "signalCtx"
    /\ (pc # "exited" /\ closeLog # <<>>) => pc = "teardown"
    /\ (pc = "exited" /\ exit # "fatal") => deferred = <<>>

\* The signal has arrived and two Close calls were made, both with a live
\* context, before the process ended.
C39_Witness ==
    /\ pc = "exited"
    /\ signalled
    /\ Len(closeLog) = 2
    /\ closeLog[1].live /\ closeLog[2].live

\* Every configured network service is established and has one deferred
\* Close.
AllEstablished ==
    \A d \in Desc : d < n =>
        /\ established[d]
        /\ Cardinality({k \in 1 .. Len(deferred) : deferred[k] = d}) = 1

\* A step in which a Request returns an error.
RequestFails == pc = "inflight" /\ pc' = "construct"

\* C40 (as claimed): when no signal arrives, no MonitorConnections call
\* fails and from some point on no Request fails, every configured network
\* service is eventually established with one deferred Close, and the
\* process does not end.
C40_Progress ==
    ([]~signalled /\ [](exit # "fatal") /\ <>[][~RequestFails]_vars) =>
        <>[](AllEstablished /\ exit = "running")

====
